---- MODULE Spec2Model ----
(***************************************************************************)
(* A model of HistoryManager (src/history_manager.py): the JSON record     *)
(* store, the per-record artifact directories, the report renderer and the *)
(* export packager.                                                        *)
(*                                                                         *)
(* Python values are modelled as follows.  A dict is a function whose      *)
(* domain is its key set (the empty dict is <<>>), a list is a sequence,   *)
(* None is the value None below, a path is a record [dir, name] with name  *)
(* the base name (Path(p).name).  A result object is a record of the       *)
(* attributes HistoryManager reads; an attribute the object does not have  *)
(* holds NoAttr.  The opaque payloads that save copies through untouched   *)
(* (summary, metadata, localization_details, pipeline_assessment,          *)
(* additional_info, report_paths, timestamp) take no part in any branch of *)
(* the code and are left out of the record.                                *)
(***************************************************************************)
EXTENDS Integers, Sequences, FiniteSets, Bags, TLC

VARIABLES history_file, history_folder, next_uuid, ret, settings, threads,
          completed

vars == <<history_file, history_folder, next_uuid, ret, settings, threads,
          completed>>

-----------------------------------------------------------------------------
(* Bounds of the model *)

\* uuid4() values drawn over a run (save is disabled afterwards)
MaxIds == 3

\* longest localizations sequence given to the Artifact Store on its own
MaxLocs == 5

\* calls one thread makes over a run
MaxCalls == 2

-----------------------------------------------------------------------------
(* Python values *)

None == [none |-> TRUE]

NoAttr == [noattr |-> TRUE]

\* dict.get(key, default)
DictGet(d, key, default) == IF key \in DOMAIN d THEN d[key] ELSE default

\* d[key] = value
DictPut(d, key, value) ==
    [k \in (DOMAIN d) \cup {key} |-> IF k = key THEN value ELSE d[k]]

\* the empty path / no path: falsy in Python
NoPath == [dir |-> "", name |-> ""]

\* a plot value that is neither str nor Path (a figure object)
NotAPath == [dir |-> "<object>", name |-> "<object>"]

\* truthiness of a path-valued attribute (None, '' and a missing attribute are falsy)
Truthy(p) == p # NoPath /\ p # None /\ p # NoAttr

-----------------------------------------------------------------------------
(* The files of the analysis engine that exist on disk when save runs.     *)
(* Two plots share the base name a.png in different directories.           *)

SrcFiles ==
    { [dir |-> "out1", name |-> "a.png"],
      [dir |-> "out2", name |-> "a.png"],
      [dir |-> "out1", name |-> "b.png"],
      [dir |-> "frames", name |-> "f1.jpg"],
      [dir |-> "frames", name |-> "f2.jpg"],
      [dir |-> "out1", name |-> "report.pdf"],
      [dir |-> "out1", name |-> "report.html"],
      [dir |-> "out1", name |-> "report.json"] }

\* the test left out
PathExistsAlways(p) == TRUE

\* os.path.exists(p)
PathExists(p) == p \in SrcFiles

\* isinstance(plot_path, (str, Path))
IsStrOrPath(p) == p # NotAPath /\ p # None

\* the bytes of a source file: every source file has its own content
Content(p) == p

-----------------------------------------------------------------------------
(* Artifact Store: _save_artifacts *)

\* f"anomaly_frame_{i}"
FrameKey(i) == "anomaly_frame_" \o ToString(i)

\* f"sample_anomaly_frame_{i}.jpg"
SampleName(i) == "sample_anomaly_frame_" \o ToString(i) \o ".jpg"

\* shutil.copy(src, folder / target_name); saved[key] = str(target_path)
Copy(acc, folder, key, src, target_name) ==
    [saved |-> DictPut(acc.saved, key, [folder |-> folder, name |-> target_name]),
     files |-> DictPut(acc.files, target_name, Content(src))]

\* for plot_name, plot_path in result.plots.items(): plots is the dict in
\* insertion order, a sequence of <<plot_name, plot_path>>
RECURSIVE CopyPlots(_, _, _, _)
CopyPlots(plots, folder, k, acc) ==
    IF k > Len(plots) THEN acc
    ELSE LET plot_name == plots[k][1]
             plot_path == plots[k][2]
         IN  IF IsStrOrPath(plot_path) /\ PathExists(plot_path)
             THEN CopyPlots(plots, folder, k + 1,
                            Copy(acc, folder, plot_name, plot_path, plot_path.name))
             ELSE CopyPlots(plots, folder, k + 1, acc)

\* the list without the slice
WholeList(localizations) == localizations

\* localizations[:3]
FirstThree(localizations) ==
    SubSeq(localizations, 1, IF Len(localizations) < 3 THEN Len(localizations) ELSE 3)

\* for i, loc in enumerate(localizations[:3]): i counts from 0
RECURSIVE CopyFrames(_, _, _, _)
CopyFrames(locs, folder, i, acc) ==
    IF i >= Len(locs) THEN acc
    ELSE LET loc == locs[i + 1]
             image == DictGet(loc, "image", None)
         IN  IF Truthy(image) /\ PathExists(image)
             THEN CopyFrames(locs, folder, i + 1,
                             Copy(acc, folder, FrameKey(i), image, SampleName(i)))
             ELSE CopyFrames(locs, folder, i + 1, acc)

\* if getattr(result, '<kind>_report_path', None) and os.path.exists(...)
CopyReport(report_path, folder, key, acc) ==
    IF Truthy(report_path) /\ PathExists(report_path)
    THEN Copy(acc, folder, key, report_path, report_path.name)
    ELSE acc

\* _save_artifacts(result, folder): files is the content of the folder before
\* the call; the result is the saved mapping and the content afterwards
SaveArtifacts(result, folder, files) ==
    LET a0 == [saved |-> <<>>, files |-> files]
        a1 == CopyPlots(result.plots, folder, 1, a0)
        a2 == CopyFrames(FirstThree(result.localizations), folder, 0, a1)
        a3 == CopyReport(result.pdf_report_path, folder, "pdf_report", a2)
        a4 == CopyReport(result.html_report_path, folder, "html_report", a3)
        a5 == CopyReport(result.json_report_path, folder, "json_report", a4)
    IN  a5

-----------------------------------------------------------------------------
(* _count_anomaly_types.  An event tag is a sequence of tokens, so that    *)
(* "anomaly_duplication" is <<"anomaly_", "duplication">>; str.replace     *)
(* removes every occurrence of the token "anomaly_".                       *)

\* event.replace('anomaly_', '')
StripAnomaly(event) == SelectSeq(event, LAMBDA t : t # "anomaly_")

\* the tag compared as it is, the prefix left on
EventTypeRaw(loc) == DictGet(loc, "event", <<>>)

\* loc.get('event', '').replace('anomaly_', '')
EventType(loc) == StripAnomaly(DictGet(loc, "event", <<>>))

RECURSIVE CountKind(_, _)
CountKind(localizations, kind) ==
    IF localizations = <<>> THEN 0
    ELSE (IF EventType(Head(localizations)) = <<kind>> THEN 1 ELSE 0)
         + CountKind(Tail(localizations), kind)

CountAnomalyTypes(result) ==
    [duplication |-> CountKind(result.localizations, "duplication"),
     insertion |-> CountKind(result.localizations, "insertion"),
     discontinuity |-> CountKind(result.localizations, "discontinuity")]

-----------------------------------------------------------------------------
(* Record Store *)

\* json.dump(history, f): the file holds a JSON document
JsonDump(history) == [state |-> "json", data |-> history]

\* the history_entry dict of save_analysis
HasAttr(value) == value # NoAttr

\* the entry with the hash stored where the video name belongs
HistoryEntryMixed(analysis_id, result, video_name, saved_artifacts) ==
    [id |-> analysis_id,
     video_name |-> result.preservation_hash,
     artifacts_folder |-> analysis_id,
     preservation_hash |-> result.preservation_hash,
     forensic_evidence_matrix |->
         IF result.forensic_evidence_matrix # NoAttr
         THEN result.forensic_evidence_matrix ELSE None,
     localizations |-> result.localizations,
     localizations_count |-> Len(result.localizations),
     anomaly_types |-> CountAnomalyTypes(result),
     saved_artifacts |-> saved_artifacts]

HistoryEntry(analysis_id, result, video_name, saved_artifacts) ==
    [id |-> analysis_id,
     video_name |-> video_name,
     artifacts_folder |-> analysis_id,
     preservation_hash |-> result.preservation_hash,
     forensic_evidence_matrix |->
         IF HasAttr(result.forensic_evidence_matrix)
         THEN result.forensic_evidence_matrix ELSE None,
     localizations |-> result.localizations,
     localizations_count |-> Len(result.localizations),
     anomaly_types |-> CountAnomalyTypes(result),
     saved_artifacts |-> saved_artifacts]

\* load_history: json.load of the file.  FileNotFoundError (no file) and
\* json.JSONDecodeError (text that is not JSON) are caught: the file is
\* rewritten as [] and [] is returned.  The file is opened in text mode, so
\* bytes that cannot be decoded raise UnicodeDecodeError, which is neither
\* of the two.  The result is the list, the file afterwards and the
\* exception ("" if none).
LoadHistory(file) ==
    IF file.state = "json"
    THEN [history |-> file.data, file |-> file, raised |-> ""]
    ELSE IF file.state \in {"missing", "invalid_json"}
    THEN [history |-> <<>>, file |-> JsonDump(<<>>), raised |-> ""]
    ELSE [history |-> <<>>, file |-> file, raised |-> "UnicodeDecodeError"]

\* the first entry, whatever its id
FirstEntry(history, analysis_id) ==
    IF history = <<>> THEN None ELSE Head(history)

\* next((entry for entry in history if entry["id"] == analysis_id), None)
RECURSIVE FirstMatch(_, _)
FirstMatch(history, analysis_id) ==
    IF history = <<>> THEN None
    ELSE IF Head(history).id = analysis_id THEN Head(history)
    ELSE FirstMatch(Tail(history), analysis_id)

\* get_analysis: the entry found and the file after load_history
GetAnalysis(file, analysis_id) ==
    LET loaded == LoadHistory(file)
    IN  [entry |-> FirstMatch(loaded.history, analysis_id), file |-> loaded.file,
         raised |-> loaded.raised]

\* the filter with == in place of !=
OnlyId(history, analysis_id) ==
    SelectSeq(history, LAMBDA entry : entry.id = analysis_id)

\* [entry for entry in history if entry["id"] != analysis_id]
WithoutId(history, analysis_id) ==
    SelectSeq(history, LAMBDA entry : entry.id # analysis_id)

\* the folder left in place
RmtreeNothing(sub, folder) == sub

\* shutil.rmtree(folder) on the sub-directory of the artifact root
Rmtree(sub, folder) == [f \in (DOMAIN sub) \ {folder} |-> sub[f]]

\* artifact_folder.mkdir(exist_ok=True) under the artifact root
Mkdir(sub, folder) == IF folder \in DOMAIN sub THEN sub ELSE DictPut(sub, folder, <<>>)

\* the last call (or the last damage done to the file): its arguments, the
\* value it returned and the exception it raised ("" if none).  Arguments and values are records ([id |-> ...],
\* [ok |-> ...], [count |-> ...]) so that any two of them can be compared.
Returned(op, arg, value) == [op |-> op, arg |-> arg, value |-> value, raised |-> ""]

Raised(op, arg, exception) == [op |-> op, arg |-> arg, value |-> None, raised |-> exception]

\* the threads that call the manager concurrently, and a thread outside any call
Threads == {1, 2}

Idle ==
    [pc |-> "idle", op |-> "", arg |-> None, history |-> <<>>, entry |-> None,
     calls |-> 0]

\* the thread back from a call
Back(thread) == [Idle EXCEPT !.calls = thread.calls]

-----------------------------------------------------------------------------
(* Report Renderer: _generate_html_report.  The document is modelled by    *)
(* the parts of it that depend on the record.                              *)

\* "Tinggi" in reliability, "Sedang" in reliability (substring tests)
ContainsTinggi(reliability) == reliability \in {"Tinggi", "Sangat Tinggi"}

ContainsSedang(reliability) == reliability \in {"Sedang"}

ReliabilityColor(reliability) ==
    IF ContainsTinggi(reliability) THEN "#28a745"
    ELSE IF ContainsSedang(reliability) THEN "#ffc107"
    ELSE "#dc3545"

\* get_artifact_relative_path(path_key)
ArtifactRelativePath(entry, path_key) ==
    IF path_key \in DOMAIN entry.saved_artifacts
    THEN <<"artifacts", entry.saved_artifacts[path_key].name>>
    ELSE None

\* timeline_visuals, enhanced_maps and ferm_visuals, in the order rendered
VisualKeys ==
    <<"kmeans_temporal", "ssim_temporal", "optical_flow_temporal",
      "enhanced_localization_map", "anomaly_infographic",
      "ferm_evidence_strength", "ferm_reliability">>

\* the first of anomaly_frame_0..2 that was stored
RECURSIVE EvidenceImage(_, _)
EvidenceImage(entry, i) ==
    IF i > 2 THEN None
    ELSE IF ArtifactRelativePath(entry, FrameKey(i)) # None
    THEN ArtifactRelativePath(entry, FrameKey(i))
    ELSE EvidenceImage(entry, i + 1)

\* get_anomaly_description(anomaly_type)["title"]
AnomalyTitle(event_type) ==
    IF event_type = <<"duplication">> THEN "Duplikasi Frame"
    ELSE IF event_type = <<"discontinuity">> THEN "Diskontinuitas Video"
    ELSE IF event_type = <<"insertion">> THEN "Penyisipan Konten"
    ELSE "Anomali Lain"

\* what ferm.get(...) does when ferm is a dict: the rest of the function
RenderWith(entry, ferm) ==
    LET reliability ==
            DictGet(DictGet(ferm, "conclusion", <<>>), "reliability_assessment", "N/A")
        shown == SelectSeq(VisualKeys,
                           LAMBDA key : ArtifactRelativePath(entry, key) # None)
        localizations == entry.localizations
    IN  [raised |-> "",
         title |-> entry.video_name,
         reliability |-> reliability,
         reliability_color |-> ReliabilityColor(reliability),
         images |-> [k \in 1..Len(shown) |-> ArtifactRelativePath(entry, shown[k])],
         events |-> [k \in 1..Len(localizations) |->
                        [title |-> AnomalyTitle(EventType(localizations[k])),
                         image |-> EvidenceImage(entry, 0)]],
         anomalies_found |-> Len(localizations) > 0]

\* ferm = entry.get("forensic_evidence_matrix", {}): the key is always in a
\* saved record, so the default is never taken and a null section comes back
\* as None; None.get raises AttributeError
GenerateHtmlReport(entry) ==
    LET ferm == DictGet(entry, "forensic_evidence_matrix", <<>>)
    IN  IF ferm = None
        THEN [raised |-> "AttributeError"]
        ELSE RenderWith(entry, ferm)

-----------------------------------------------------------------------------
(* Export Packager: the archive is the bag of its entry names together     *)
(* with the two generated members.                                         *)

\* artifact_folder.glob('**/*') filtered by is_file(), each written as
\* artifacts/<base name>
ArtifactEntries(sub, folder) ==
    IF folder \in DOMAIN sub
    THEN SetToBag({<<"artifacts", name>> : name \in DOMAIN sub[folder]})
    ELSE EmptyBag

Archive(entry, html, sub) ==
    [names |-> SetToBag({<<"analysis_report.json">>}) (+)
               SetToBag({<<"analysis_report.html">>}) (+)
               ArtifactEntries(sub, entry.artifacts_folder),
     json |-> entry,
     html |-> html]

-----------------------------------------------------------------------------
(* Inputs *)

VideoNames == {"clip_a.mp4", "clip_b.mp4"}

\* identifiers a caller may pass: every uuid of the run, and 0, never issued
Ids == 0..MaxIds

EvDuplication == <<"anomaly_", "duplication">>

EvInsertion == <<"insertion">>

EvOther == <<"anomaly_", "scene_change">>

FrameA == [dir |-> "frames", name |-> "f1.jpg"]

FrameB == [dir |-> "frames", name |-> "f2.jpg"]

FrameGone == [dir |-> "frames", name |-> "gone.jpg"]

PlotA1 == [dir |-> "out1", name |-> "a.png"]

\* a plot of another output directory with the base name of PlotA1
PlotA2 == [dir |-> "out2", name |-> "a.png"]

PlotB == [dir |-> "out1", name |-> "b.png"]

PlotGone == [dir |-> "out1", name |-> "gone.png"]

ReportPdf == [dir |-> "out1", name |-> "report.pdf"]

ReportJson == [dir |-> "out1", name |-> "report.json"]

ReportGone == [dir |-> "out1", name |-> "gone.html"]

\* a result without files and events
PayloadEmpty ==
    [preservation_hash |-> "sha-1",
     localizations |-> <<>>,
     plots |-> <<>>,
     pdf_report_path |-> None,
     html_report_path |-> NoAttr,
     json_report_path |-> NoAttr]

\* a result with events, plots and reports, some of them missing on disk
PayloadFiles ==
    [preservation_hash |-> "sha-2",
     localizations |-> << [event |-> EvInsertion],
                          [event |-> EvDuplication, image |-> FrameA],
                          [event |-> EvOther, image |-> FrameGone] >>,
     plots |-> << <<"kmeans_temporal", PlotA1>>,
                  <<"ssim_temporal", PlotGone>>,
                  <<"ferm_reliability", PlotB>> >>,
     pdf_report_path |-> ReportPdf,
     html_report_path |-> ReportGone,
     json_report_path |-> None]

WithFerm(payload, ferm) ==
    [preservation_hash |-> payload.preservation_hash,
     forensic_evidence_matrix |-> ferm,
     localizations |-> payload.localizations,
     plots |-> payload.plots,
     pdf_report_path |-> payload.pdf_report_path,
     html_report_path |-> payload.html_report_path,
     json_report_path |-> payload.json_report_path]

Results ==
    { WithFerm(PayloadEmpty, NoAttr),
      WithFerm(PayloadFiles, [conclusion |-> <<>>]),
      WithFerm(PayloadFiles, [conclusion |-> [reliability_assessment |-> "Tinggi"]]) }

\* results for the Artifact Store on its own: every sequence of up to MaxLocs
\* events, each without an image, with an image on disk or with a missing one
ArtLocs ==
    { [event |-> EvDuplication],
      [event |-> EvDuplication, image |-> FrameA],
      [event |-> EvDuplication, image |-> FrameB],
      [event |-> EvDuplication, image |-> FrameGone] }

ArtPlots ==
    { <<>>,
      << <<"kmeans_temporal", PlotA1>>, <<"ssim_temporal", PlotGone>>,
         <<"optical_flow_temporal", NotAPath>> >>,
      << <<"kmeans_temporal", PlotA1>>, <<"ssim_temporal", PlotA2>> >> }

ArtReports ==
    { [pdf |-> None, html |-> NoAttr, json |-> NoAttr],
      [pdf |-> ReportPdf, html |-> ReportGone, json |-> ReportJson] }

ArtResults ==
    { [preservation_hash |-> "sha-1",
       forensic_evidence_matrix |-> <<>>,
       localizations |-> locs,
       plots |-> plots,
       pdf_report_path |-> reports.pdf,
       html_report_path |-> reports.html,
       json_report_path |-> reports.json] :
      locs \in UNION { [1..n -> ArtLocs] : n \in 0..MaxLocs },
      plots \in ArtPlots,
      reports \in ArtReports }

-----------------------------------------------------------------------------
(* The state after HistoryManager(): the artifact root exists, the history *)
(* file holds [], the settings table is empty and no uuid has been drawn.  *)
(* settings holds the primary keys of the rows of the settings table.      *)
(* threads and completed belong to the calls that run step by step in      *)
(* concurrent threads (see Threads below).                                 *)

Init ==
    /\ history_file = JsonDump(<<>>)
    /\ history_folder = [exists |-> TRUE, sub |-> <<>>]
    /\ next_uuid = 1
    /\ ret = Returned("init", None, None)
    /\ settings = {}
    /\ threads = [t \in Threads |-> Idle]
    /\ completed = [saved |-> {}, deleted |-> {}, cleared |-> FALSE]

\* the root left as it is
KeepRoot(folder) == [exists |-> TRUE, sub |-> folder.sub]

\* shutil.rmtree(self.history_folder); self.history_folder.mkdir(exist_ok=True)
RecreateRoot(folder) == [exists |-> TRUE, sub |-> <<>>]

\* the new entry put in front
PrependEntry(history, history_entry) == <<history_entry>> \o history

\* the list rewritten without the new entry
AppendNothing(history, history_entry) == history

\* history.append(history_entry)
AppendEntry(history, history_entry) == Append(history, history_entry)

\* the failure of the insert leaving save_analysis
SaveReturnPropagates(analysis_id, arg, insert_ok) ==
    IF insert_ok THEN Returned("save", arg, [id |-> analysis_id])
    ELSE Raised("save", arg, "sqlite3.Error")

\* try: INSERT ... except Exception: pass, then return analysis_id
SaveReturn(analysis_id, arg, insert_ok) ==
    Returned("save", arg, [id |-> analysis_id])

\* cursor.execute("INSERT INTO settings ..."); conn.commit()
InsertRow(table, analysis_id, insert_ok) ==
    IF insert_ok THEN table \cup {analysis_id} ELSE table

\* save_analysis.  insert_ok says whether the insert into the settings table
\* that follows the JSON write goes through.  When load_history raises, the
\* folder and its copies are already there and nothing else is done.
SaveAnalysis(result, video_name, insert_ok) ==
    /\ next_uuid <= MaxIds
    /\ LET analysis_id == next_uuid
           arg == [result |-> result, video_name |-> video_name]
           sub == Mkdir(history_folder.sub, analysis_id)
           artifacts == SaveArtifacts(result, analysis_id, sub[analysis_id])
           history_entry ==
               HistoryEntry(analysis_id, result, video_name, artifacts.saved)
           loaded == LoadHistory(history_file)
       IN  /\ history_folder' =
                  [history_folder EXCEPT
                      !.sub = DictPut(sub, analysis_id, artifacts.files)]
           /\ IF loaded.raised # ""
              THEN /\ history_file' = loaded.file
                   /\ settings' = settings
                   /\ ret' = Raised("save", arg, loaded.raised)
              ELSE /\ history_file' = JsonDump(AppendEntry(loaded.history, history_entry))
                   /\ settings' = InsertRow(settings, analysis_id, insert_ok)
                   /\ ret' = SaveReturn(analysis_id, arg, insert_ok)
    /\ next_uuid' = next_uuid + 1
    /\ UNCHANGED <<threads, completed>>

\* load_history called by the user
Load ==
    LET loaded == LoadHistory(history_file)
    IN  /\ history_file' = loaded.file
        /\ ret' = IF loaded.raised # ""
                  THEN Raised("load", None, loaded.raised)
                  ELSE Returned("load", None, [history |-> loaded.history])
        /\ UNCHANGED <<history_folder, next_uuid, settings, threads, completed>>

\* get_analysis called by the user
Get(analysis_id) ==
    LET found == GetAnalysis(history_file, analysis_id)
    IN  /\ history_file' = found.file
        /\ ret' = IF found.raised # ""
                  THEN Raised("get", [id |-> analysis_id], found.raised)
                  ELSE Returned("get", [id |-> analysis_id], found.entry)
        /\ UNCHANGED <<history_folder, next_uuid, settings, threads, completed>>

\* delete_analysis, shutil.rmtree succeeding
DeleteAnalysis(analysis_id) ==
    LET loaded == LoadHistory(history_file)
        history == loaded.history
        found == GetAnalysis(loaded.file, analysis_id)
        entry_to_delete == found.entry
    IN  /\ IF loaded.raised # ""
           THEN /\ history_file' = loaded.file
                /\ UNCHANGED history_folder
                /\ ret' = Raised("delete", [id |-> analysis_id], loaded.raised)
           ELSE IF entry_to_delete = None
           THEN /\ history_file' = found.file
                /\ UNCHANGED history_folder
                /\ ret' = Returned("delete", [id |-> analysis_id], [ok |-> FALSE])
           ELSE /\ history_folder' =
                       IF entry_to_delete.artifacts_folder \in DOMAIN history_folder.sub
                       THEN [history_folder EXCEPT
                                !.sub = Rmtree(@, entry_to_delete.artifacts_folder)]
                       ELSE history_folder
                /\ history_file' = JsonDump(WithoutId(history, analysis_id))
                /\ ret' = Returned("delete", [id |-> analysis_id], [ok |-> TRUE])
        /\ UNCHANGED <<next_uuid, settings, threads, completed>>

\* delete_analysis when shutil.rmtree raises (a file of the folder cannot be
\* removed): the call is not guarded, the exception leaves delete_analysis
\* before the JSON rewrite, and any part of the folder's files may be gone
DeleteAnalysisRmtreeFails(analysis_id) ==
    LET found == GetAnalysis(LoadHistory(history_file).file, analysis_id)
        entry_to_delete == found.entry
    IN  /\ entry_to_delete # None
        /\ entry_to_delete.artifacts_folder \in DOMAIN history_folder.sub
        /\ \E kept \in SUBSET DOMAIN history_folder.sub[entry_to_delete.artifacts_folder] :
              history_folder' =
                  [history_folder EXCEPT
                      !.sub[entry_to_delete.artifacts_folder] =
                          [name \in kept |-> @[name]]]
        /\ history_file' = found.file
        /\ ret' = Raised("delete", [id |-> analysis_id], "OSError")
        /\ UNCHANGED <<next_uuid, settings, threads, completed>>

\* delete_all_history
DeleteAllHistory ==
    LET loaded == LoadHistory(history_file)
        count == Len(loaded.history)
    IN  /\ IF loaded.raised # ""
           THEN /\ UNCHANGED <<history_file, history_folder>>
                /\ ret' = Raised("delete_all", None, loaded.raised)
           ELSE /\ history_folder' = RecreateRoot(history_folder)
                /\ history_file' = JsonDump(<<>>)
                /\ ret' = Returned("delete_all", None, [count |-> count])
        /\ UNCHANGED <<next_uuid, settings, threads, completed>>

\* export_analysis: an exception of the renderer leaves the function
ExportAnalysis(analysis_id) ==
    LET found == GetAnalysis(history_file, analysis_id)
        entry == found.entry
    IN  /\ history_file' = found.file
        /\ ret' = IF found.raised # ""
                  THEN Raised("export", [id |-> analysis_id], found.raised)
                  ELSE IF entry = None
                  THEN Returned("export", [id |-> analysis_id], None)
                  ELSE LET html_report == GenerateHtmlReport(entry)
                       IN  IF html_report.raised # ""
                           THEN Raised("export", [id |-> analysis_id], html_report.raised)
                           ELSE Returned("export", [id |-> analysis_id],
                                         Archive(entry, html_report, history_folder.sub))
        /\ UNCHANGED <<history_folder, next_uuid, settings, threads, completed>>

\* the calls of one user, one after the other, the settings table healthy
Next ==
    \/ \E result \in Results, video_name \in VideoNames :
          SaveAnalysis(result, video_name, TRUE)
    \/ Load
    \/ \E analysis_id \in Ids : Get(analysis_id)
    \/ \E analysis_id \in Ids : DeleteAnalysis(analysis_id)
    \/ DeleteAllHistory
    \/ \E analysis_id \in Ids : ExportAnalysis(analysis_id)

Spec == Init /\ [][Next]_vars

\* results for the runs in which shutil.rmtree may fail: no file, or a plot
\* and a sample frame
FaultResults ==
    { [preservation_hash |-> "sha-1",
       forensic_evidence_matrix |-> <<>>,
       localizations |-> locs,
       plots |-> plots,
       pdf_report_path |-> None,
       html_report_path |-> NoAttr,
       json_report_path |-> NoAttr] :
      locs \in { <<>>, << [event |-> EvDuplication, image |-> FrameA] >> },
      plots \in { <<>>, << <<"kmeans_temporal", PlotA1>> >> } }

\* the record store's calls, with shutil.rmtree allowed to fail
NextFault ==
    \/ \E result \in FaultResults : SaveAnalysis(result, "clip_a.mp4", TRUE)
    \/ \E analysis_id \in Ids : Get(analysis_id)
    \/ \E analysis_id \in Ids : DeleteAnalysis(analysis_id)
    \/ \E analysis_id \in Ids : DeleteAnalysisRmtreeFails(analysis_id)
    \/ DeleteAllHistory

SpecFault == Init /\ [][NextFault]_vars

\* the first save of a fresh store, over the Artifact Store's inputs
SaveFirst ==
    /\ next_uuid = 1
    /\ \E result \in ArtResults : SaveAnalysis(result, "clip_a.mp4", TRUE)

SpecArt == Init /\ [][SaveFirst]_vars

\* what can happen to analysis_history.json behind the program's back: it is
\* removed, it is left with text that is not JSON (a truncated write), or
\* with bytes that are not text in the platform's encoding
DamagedStates == {"missing", "invalid_json", "undecodable"}

Damage(state) ==
    /\ history_file' = [state |-> state, data |-> <<>>]
    /\ ret' = Returned("damage", [state |-> state], None)
    /\ UNCHANGED <<history_folder, next_uuid, settings, threads, completed>>

\* the record store's calls on a file that may be damaged between them
NextDamage ==
    \/ \E result \in FaultResults : SaveAnalysis(result, "clip_a.mp4", TRUE)
    \/ Load
    \/ \E analysis_id \in Ids : Get(analysis_id)
    \/ \E analysis_id \in Ids : DeleteAnalysis(analysis_id)
    \/ DeleteAllHistory
    \/ \E state \in DamagedStates : Damage(state)

SpecDamage == Init /\ [][NextDamage]_vars

\* the record store's calls with the insert into the settings table failing
\* or not (the database locked, the table dropped, the disk full)
NextIndex ==
    \/ \E result \in FaultResults, insert_ok \in BOOLEAN :
          SaveAnalysis(result, "clip_a.mp4", insert_ok)
    \/ \E analysis_id \in Ids : Get(analysis_id)
    \/ \E analysis_id \in Ids : DeleteAnalysis(analysis_id)
    \/ DeleteAllHistory

SpecIndex == Init /\ [][NextIndex]_vars

-----------------------------------------------------------------------------
(* The same calls made by concurrent threads (or processes) on one         *)
(* directory.  Nothing in the class takes a lock, so a call is a sequence  *)
(* of steps between which the other thread may run: every read and every   *)
(* rewrite of analysis_history.json and every rmtree is a step of its own. *)
(* threads[t] holds the position of thread t in its call and the call's    *)
(* local variables (history, the list it loaded; entry, its history_entry  *)
(* or entry_to_delete).  completed records what the threads' calls         *)
(* reported: the ids save returned, the ids delete returned True for, and  *)
(* whether a delete_all_history returned.  The file is readable            *)
(* throughout, and a thread makes at most MaxCalls calls.                  *)

ConcResults ==
    { [preservation_hash |-> "sha-1",
       forensic_evidence_matrix |-> <<>>,
       localizations |-> <<>>,
       plots |-> plots,
       pdf_report_path |-> None,
       html_report_path |-> NoAttr,
       json_report_path |-> NoAttr] :
      plots \in { << <<"kmeans_temporal", PlotA1>> >> } }

\* save_analysis up to the history_entry: uuid4, mkdir, _save_artifacts
SaveBegin(t, result, video_name) ==
    /\ threads[t].pc = "idle"
    /\ threads[t].calls < MaxCalls
    /\ next_uuid <= MaxIds
    /\ LET analysis_id == next_uuid
           sub == Mkdir(history_folder.sub, analysis_id)
           artifacts == SaveArtifacts(result, analysis_id, sub[analysis_id])
       IN  /\ history_folder' =
                  [history_folder EXCEPT
                      !.sub = DictPut(sub, analysis_id, artifacts.files)]
           /\ threads' =
                  [threads EXCEPT ![t] =
                      [pc |-> "save_load", op |-> "save",
                       arg |-> [result |-> result, video_name |-> video_name],
                       history |-> <<>>,
                       entry |-> HistoryEntry(analysis_id, result, video_name,
                                              artifacts.saved),
                       calls |-> threads[t].calls + 1]]
    /\ next_uuid' = next_uuid + 1
    /\ UNCHANGED <<history_file, ret, settings, completed>>

\* history = self.load_history()
SaveLoad(t) ==
    /\ threads[t].pc = "save_load"
    /\ history_file' = LoadHistory(history_file).file
    /\ threads' = [threads EXCEPT ![t].pc = "save_write",
                                  ![t].history = LoadHistory(history_file).history]
    /\ UNCHANGED <<history_folder, next_uuid, ret, settings, completed>>

\* history.append(history_entry); json.dump(history, f)
SaveWrite(t) ==
    /\ threads[t].pc = "save_write"
    /\ history_file' = JsonDump(AppendEntry(threads[t].history, threads[t].entry))
    /\ threads' = [threads EXCEPT ![t].pc = "save_index"]
    /\ UNCHANGED <<history_folder, next_uuid, ret, settings, completed>>

\* the insert into the settings table and return analysis_id
SaveFinish(t) ==
    /\ threads[t].pc = "save_index"
    /\ settings' = InsertRow(settings, threads[t].entry.id, TRUE)
    /\ ret' = SaveReturn(threads[t].entry.id, threads[t].arg, TRUE)
    /\ completed' = [completed EXCEPT !.saved = @ \cup {threads[t].entry.id}]
    /\ threads' = [threads EXCEPT ![t] = Back(threads[t])]
    /\ UNCHANGED <<history_file, history_folder, next_uuid>>

\* delete_analysis: history = self.load_history()
DeleteLoad(t, analysis_id) ==
    /\ threads[t].pc = "idle"
    /\ threads[t].calls < MaxCalls
    /\ history_file' = LoadHistory(history_file).file
    /\ threads' =
           [threads EXCEPT ![t] =
               [pc |-> "delete_get", op |-> "delete", arg |-> [id |-> analysis_id],
                history |-> LoadHistory(history_file).history, entry |-> None,
                calls |-> threads[t].calls + 1]]
    /\ UNCHANGED <<history_folder, next_uuid, ret, settings, completed>>

\* entry_to_delete = self.get_analysis(analysis_id); return False if none
DeleteGet(t) ==
    /\ threads[t].pc = "delete_get"
    /\ LET found == GetAnalysis(history_file, threads[t].arg.id)
       IN  /\ history_file' = found.file
           /\ IF found.entry = None
              THEN /\ ret' = Returned("delete", threads[t].arg, [ok |-> FALSE])
                   /\ threads' = [threads EXCEPT ![t] = Back(threads[t])]
              ELSE /\ ret' = ret
                   /\ threads' = [threads EXCEPT ![t].pc = "delete_rmtree",
                                                 ![t].entry = found.entry]
    /\ UNCHANGED <<history_folder, next_uuid, settings, completed>>

\* shutil.rmtree(artifact_folder) if it exists
DeleteRmtree(t) ==
    /\ threads[t].pc = "delete_rmtree"
    /\ history_folder' =
           IF threads[t].entry.artifacts_folder \in DOMAIN history_folder.sub
           THEN [history_folder EXCEPT
                    !.sub = Rmtree(@, threads[t].entry.artifacts_folder)]
           ELSE history_folder
    /\ threads' = [threads EXCEPT ![t].pc = "delete_write"]
    /\ UNCHANGED <<history_file, next_uuid, ret, settings, completed>>

\* the filtered list written over the file; return True
DeleteWrite(t) ==
    /\ threads[t].pc = "delete_write"
    /\ history_file' = JsonDump(WithoutId(threads[t].history, threads[t].arg.id))
    /\ ret' = Returned("delete", threads[t].arg, [ok |-> TRUE])
    /\ completed' = [completed EXCEPT !.deleted = @ \cup {threads[t].arg.id}]
    /\ threads' = [threads EXCEPT ![t] = Back(threads[t])]
    /\ UNCHANGED <<history_folder, next_uuid, settings>>

\* delete_all_history: history = self.load_history(); count = len(history)
ClearLoad(t) ==
    /\ threads[t].pc = "idle"
    /\ threads[t].calls < MaxCalls
    /\ history_file' = LoadHistory(history_file).file
    /\ threads' =
           [threads EXCEPT ![t] =
               [pc |-> "clear_rmtree", op |-> "delete_all", arg |-> None,
                history |-> LoadHistory(history_file).history, entry |-> None,
                calls |-> threads[t].calls + 1]]
    /\ UNCHANGED <<history_folder, next_uuid, ret, settings, completed>>

\* the artifact root removed and made again
ClearRmtree(t) ==
    /\ threads[t].pc = "clear_rmtree"
    /\ history_folder' = RecreateRoot(history_folder)
    /\ threads' = [threads EXCEPT ![t].pc = "clear_write"]
    /\ UNCHANGED <<history_file, next_uuid, ret, settings, completed>>

\* json.dump([], f); return count
ClearWrite(t) ==
    /\ threads[t].pc = "clear_write"
    /\ history_file' = JsonDump(<<>>)
    /\ ret' = Returned("delete_all", None, [count |-> Len(threads[t].history)])
    /\ completed' = [completed EXCEPT !.cleared = TRUE]
    /\ threads' = [threads EXCEPT ![t] = Back(threads[t])]
    /\ UNCHANGED <<history_folder, next_uuid, settings>>

NextThreads ==
    \E t \in Threads :
        \/ \E result \in ConcResults : SaveBegin(t, result, "clip_a.mp4")
        \/ SaveLoad(t)
        \/ SaveWrite(t)
        \/ SaveFinish(t)
        \/ \E analysis_id \in 1..MaxIds : DeleteLoad(t, analysis_id)
        \/ DeleteGet(t)
        \/ DeleteRmtree(t)
        \/ DeleteWrite(t)
        \/ ClearLoad(t)
        \/ ClearRmtree(t)
        \/ ClearWrite(t)

SpecThreads == Init /\ [][NextThreads]_vars

\* localizations as the engine tags them: a known kind with or without the
\* anomaly_ prefix, an unknown kind, or no event at all
EvDiscontinuity == <<"anomaly_", "discontinuity">>

CountLocs ==
    { [event |-> EvDuplication],
      [event |-> EvInsertion],
      [event |-> EvDiscontinuity],
      [event |-> EvOther],
      [start_frame |-> 0] }

CountResults ==
    { [preservation_hash |-> "sha-1",
       forensic_evidence_matrix |-> NoAttr,
       localizations |-> locs,
       plots |-> <<>>,
       pdf_report_path |-> None,
       html_report_path |-> NoAttr,
       json_report_path |-> NoAttr] :
      locs \in UNION { [1..n -> CountLocs] : n \in 0..MaxLocs } }

\* the first save of a fresh store, over the tagged localizations
SaveCounted ==
    /\ next_uuid = 1
    /\ \E result \in CountResults : SaveAnalysis(result, "clip_a.mp4", TRUE)

SpecCount == Init /\ [][SaveCounted]_vars

-----------------------------------------------------------------------------
(* Properties *)

\* what load() returns in the current state
Collection == LoadHistory(history_file).history

IdsOf(history) == { history[k].id : k \in 1..Len(history) }

\* the sequence without its k-th element
DropAt(history, k) ==
    [j \in 1..(Len(history) - 1) |-> IF j < k THEN history[j] ELSE history[j + 1]]

\* C1: get(save(result, name)) is a record, not None, with the id save
\* returned and the video_name, preservation_hash and localizations given to
\* save, whatever was saved and deleted before.
C1_GetAfterSave ==
    ret.op = "save" =>
        LET got == GetAnalysis(history_file, ret.value.id).entry
        IN  /\ ret.raised = ""
            /\ got # None
            /\ got.id = ret.value.id
            /\ got.video_name = ret.arg.video_name
            /\ got.preservation_hash = ret.arg.result.preservation_hash
            /\ got.localizations = ret.arg.result.localizations

\* a save after an earlier record was deleted, next to a surviving record
C1_Witness ==
    /\ ret.op = "save"
    /\ ret.value.id = 3
    /\ IdsOf(Collection) = {2, 3}
    /\ ret.arg.result.localizations # <<>>

\* C2: delete(id) of an id in the collection returns True; load() afterwards
\* is the sequence before with the one entry of that id dropped, the others
\* unchanged and in order; the record's folder is gone and the other folders
\* are as they were.
C2_DeleteRemovesOne ==
    [][ (ret'.op = "delete" /\ ret'.arg.id \in IdsOf(Collection)) =>
            /\ ret'.raised = ""
            /\ ret'.value.ok
            /\ Len(Collection') = Len(Collection) - 1
            /\ ret'.arg.id \notin IdsOf(Collection')
            /\ \E k \in 1..Len(Collection) :
                  /\ Collection[k].id = ret'.arg.id
                  /\ Collection' = DropAt(Collection, k)
            /\ ret'.arg.id \notin DOMAIN history_folder'.sub
            /\ DOMAIN history_folder'.sub = (DOMAIN history_folder.sub) \ {ret'.arg.id}
            /\ \A other \in DOMAIN history_folder'.sub :
                  history_folder'.sub[other] = history_folder.sub[other]
      ]_vars

\* the middle one of three records was deleted; a folder with files remains
C2_Witness ==
    /\ ret.op = "delete"
    /\ ret.value.ok
    /\ ret.arg.id = 2
    /\ Len(Collection) = 2
    /\ Collection[1].id = 1
    /\ Collection[2].id = 3
    /\ DOMAIN history_folder.sub = {1, 3}
    /\ history_folder.sub[3] # <<>>

\* C3: for an id that is not in the collection get returns None, delete
\* returns False and export returns None, none raises, and the collection
\* and the artifact folders are unchanged.
C3_MissingId ==
    [][ (ret'.op \in {"get", "delete", "export"} /\ ret'.arg.id \notin IdsOf(Collection)) =>
            /\ ret'.raised = ""
            /\ (ret'.op = "delete" => ~ret'.value.ok)
            /\ (ret'.op # "delete" => ret'.value = None)
            /\ Collection' = Collection
            /\ history_folder' = history_folder
      ]_vars

\* export of an id that was deleted, while another record is stored
C3_Witness ==
    /\ ret.op = "export"
    /\ ret.raised = ""
    /\ ret.value = None
    /\ ret.arg.id = 1
    /\ IdsOf(Collection) = {2}
    /\ history_folder.sub[2] # <<>>

\* C4: deleteAll() returns the number of records load() returned just
\* before; afterwards load() is empty, every get is None, and the artifact
\* root exists and holds nothing.
C4_DeleteAll ==
    [][ ret'.op = "delete_all" =>
            /\ ret'.raised = ""
            /\ ret'.value.count = Len(Collection)
            /\ Collection' = <<>>
            /\ \A analysis_id \in Ids :
                  GetAnalysis(history_file', analysis_id).entry = None
            /\ history_folder'.exists
            /\ DOMAIN history_folder'.sub = {}
      ]_vars

\* deleteAll of two records, after a third was deleted singly
C4_Witness ==
    /\ ret.op = "delete_all"
    /\ ret.value.count = 2
    /\ next_uuid = 4
    /\ Collection = <<>>
    /\ DOMAIN history_folder.sub = {}

\* C5: every record of the JSON collection has an existing artifact folder
\* at its artifacts_folder path.
C5_RecordHasFolder ==
    \A k \in 1..Len(Collection) :
        /\ history_folder.exists
        /\ Collection[k].artifacts_folder \in DOMAIN history_folder.sub

\* two records left after a delete, one of them with an empty folder
C5_Witness ==
    /\ ret.op = "delete"
    /\ ret.value.ok
    /\ Len(Collection) = 2
    /\ \E k \in 1..2 : history_folder.sub[Collection[k].artifacts_folder] = <<>>
    /\ \E k \in 1..2 : history_folder.sub[Collection[k].artifacts_folder] # <<>>

\* C6: delete(id) of a stored record returns True and removes the record
\* from the JSON collection whatever becomes of the folder's removal: a
\* failing removal neither raises nor keeps the JSON entry.
C6_DeleteDespiteRmtreeFailure ==
    [][ (ret'.op = "delete" /\ ret'.arg.id \in IdsOf(Collection)) =>
            /\ ret'.raised = ""
            /\ ret'.value.ok
            /\ ret'.arg.id \notin IdsOf(Collection')
      ]_vars

\* the entry names an archive of the record must have: the two reports and
\* one artifacts/<base name> per file of the record's folder, each once
ExpectedNames(entry) ==
    {<<"analysis_report.json">>, <<"analysis_report.html">>} \cup
    { <<"artifacts", name>> : name \in DOMAIN history_folder.sub[entry.artifacts_folder] }

\* C7: export(id) of a stored id returns an archive whose entries are
\* exactly analysis_report.json, analysis_report.html and one artifacts/
\* entry per file of the record's folder.
C7_ExportEntries ==
    (ret.op = "export" /\ ret.arg.id \in IdsOf(Collection)) =>
        /\ ret.raised = ""
        /\ ret.value # None
        /\ BagToSet(ret.value.names) = ExpectedNames(FirstMatch(Collection, ret.arg.id))
        /\ \A name \in BagToSet(ret.value.names) : CopiesIn(name, ret.value.names) = 1

\* the record has no evidence matrix, or the matrix has no
\* conclusion.reliability_assessment
LacksReliability(entry) ==
    \/ entry.forensic_evidence_matrix = None
    \/ "conclusion" \notin DOMAIN entry.forensic_evidence_matrix
    \/ "reliability_assessment" \notin DOMAIN entry.forensic_evidence_matrix.conclusion

\* C8: for a record without an evidence matrix, or whose matrix lacks
\* conclusion.reliability_assessment, the report is rendered with the label
\* N/A and the low colour, and export returns an archive instead of failing.
C8_ReliabilityFallback ==
    (/\ ret.op = "export"
     /\ ret.arg.id \in IdsOf(Collection)
     /\ LacksReliability(FirstMatch(Collection, ret.arg.id))) =>
        /\ ret.raised = ""
        /\ ret.value # None
        /\ ret.value.html.reliability = "N/A"
        /\ ret.value.html.reliability_color = "#dc3545"

\* the event carries an image path that exists on disk
Resolvable(loc) == "image" \in DOMAIN loc /\ loc.image \in SrcFiles

\* the record of the last save, its saved_artifacts and its folder's files
LastSaved == GetAnalysis(history_file, ret.value.id).entry

LastFiles == history_folder.sub[LastSaved.artifacts_folder]

\* C9 as stated: the first three events that carry a resolvable image,
\* wherever they are in the sequence, are copied and keyed anomaly_frame_0,
\* anomaly_frame_1, anomaly_frame_2 in encounter order.
C9_FirstThreeWithImages ==
    ret.op = "save" =>
        LET locs == ret.arg.result.localizations
            carrying == SelectSeq(locs, Resolvable)
            n == IF Len(carrying) < 3 THEN Len(carrying) ELSE 3
            saved == LastSaved.saved_artifacts
        IN  \A j \in 0..Len(locs) :
                IF j < n
                THEN /\ FrameKey(j) \in DOMAIN saved
                     /\ LastFiles[saved[FrameKey(j)].name] = carrying[j + 1].image
                ELSE FrameKey(j) \notin DOMAIN saved

\* C9 amended: only the first three events of the sequence are looked at;
\* the i-th of them (from 0) is copied, as anomaly_frame_i, exactly when it
\* carries a resolvable image, so events after the third are never copied.
C9_FirstThreePositions ==
    ret.op = "save" =>
        LET locs == ret.arg.result.localizations
            saved == LastSaved.saved_artifacts
        IN  \A i \in 0..Len(locs) :
                IF i < 3 /\ i < Len(locs) /\ Resolvable(locs[i + 1])
                THEN /\ FrameKey(i) \in DOMAIN saved
                     /\ LastFiles[saved[FrameKey(i)].name] = locs[i + 1].image
                ELSE FrameKey(i) \notin DOMAIN saved

\* the example of the claim: only the 2nd, 4th and 5th events carry images
C9_Witness ==
    /\ ret.op = "save"
    /\ Len(ret.arg.result.localizations) = 5
    /\ { k \in 1..5 : Resolvable(ret.arg.result.localizations[k]) } = {2, 4, 5}
    /\ { i \in 0..5 : FrameKey(i) \in DOMAIN LastSaved.saved_artifacts }  = {1}

\* the source paths a key of saved_artifacts can stand for
Sources(result, key) ==
    { result.plots[k][2] :
          k \in { k \in 1..Len(result.plots) : result.plots[k][1] = key } }
    \cup { result.localizations[k].image :
          k \in { k \in 1..Len(result.localizations) :
                     /\ FrameKey(k - 1) = key
                     /\ "image" \in DOMAIN result.localizations[k] } }
    \cup (IF key = "pdf_report" THEN {result.pdf_report_path} ELSE {})
    \cup (IF key = "html_report" THEN {result.html_report_path} ELSE {})
    \cup (IF key = "json_report" THEN {result.json_report_path} ELSE {})

\* C10: saved_artifacts has a key only if the key's source path existed on
\* disk; a missing source is skipped without an error; at most three
\* anomaly_frame_* keys are present however many events carry images.
C10_OnlyExistingSources ==
    ret.op = "save" =>
        LET result == ret.arg.result
            saved == LastSaved.saved_artifacts
        IN  /\ ret.raised = ""
            /\ \A key \in DOMAIN saved :
                  \E path \in Sources(result, key) : path \in SrcFiles
            /\ Cardinality({ i \in 0..Len(result.localizations) :
                                FrameKey(i) \in DOMAIN saved }) <= 3

\* five events all carrying images on disk, a missing plot and a missing
\* report: three frames stored, the missing sources without a key
C10_Witness ==
    /\ ret.op = "save"
    /\ Len(ret.arg.result.localizations) = 5
    /\ \A k \in 1..5 : Resolvable(ret.arg.result.localizations[k])
    /\ ret.arg.result.html_report_path = ReportGone
    /\ ret.arg.result.plots # <<>>
    /\ { i \in 0..5 : FrameKey(i) \in DOMAIN LastSaved.saved_artifacts } = {0, 1, 2}
    /\ DOMAIN LastSaved.saved_artifacts =
           {"kmeans_temporal", "anomaly_frame_0", "anomaly_frame_1",
            "anomaly_frame_2", "pdf_report", "json_report"}

\* C11: a load on a missing or unparseable document returns [] without
\* raising and leaves the document rewritten as []; a save on such a
\* document (nothing, or only loads, since it was damaged) returns without
\* raising and leaves a collection holding exactly the one new record.
C11_DamagedStoreHeals ==
    [][ history_file.state \in DamagedStates =>
           /\ ret'.op = "load" =>
                  /\ ret'.raised = ""
                  /\ ret'.value = [history |-> <<>>]
                  /\ history_file' = JsonDump(<<>>)
           /\ ret'.op = "save" =>
                  /\ ret'.raised = ""
                  /\ history_file'.state = "json"
                  /\ IdsOf(history_file'.data) = {ret'.value.id}
                  /\ Len(history_file'.data) = 1 ]_vars

\* C12: when the insert into the settings table fails during a save, the
\* save raises nothing and returns the id it drew, the record with that id
\* is in the JSON collection, and get of that id returns it.
C12_InsertFailureSwallowed ==
    [][ (ret'.op = "save" /\ next_uuid \notin settings') =>
           /\ ret'.raised = ""
           /\ ret'.value = [id |-> next_uuid]
           /\ history_file'.state = "json"
           /\ next_uuid \in IdsOf(history_file'.data)
           /\ GetAnalysis(history_file', next_uuid).entry # None
           /\ GetAnalysis(history_file', next_uuid).entry.id = next_uuid
           /\ GetAnalysis(history_file', next_uuid).entry.video_name =
                  ret'.arg.video_name ]_vars

\* a save whose insert failed, after one whose insert went through
C12_Witness ==
    /\ ret.op = "save"
    /\ ret.raised = ""
    /\ ret.value.id \notin settings
    /\ settings # {}
    /\ Len(Collection) = 2
    /\ ret.value.id \in IdsOf(Collection)

\* the kind of a localization as C13 words it: its event with a leading
\* anomaly_ taken off, nothing if it has no event
KindOf(loc) ==
    IF "event" \notin DOMAIN loc THEN <<>>
    ELSE IF loc.event # <<>> /\ Head(loc.event) = "anomaly_" THEN Tail(loc.event)
    ELSE loc.event

HowMany(localizations, kind) ==
    Cardinality({ k \in 1..Len(localizations) : KindOf(localizations[k]) = <<kind>> })

Leaves(t, pc) == threads[t].pc = pc /\ threads'[t].pc # pc

\* C14: save, delete and delete_all each load the list, change their copy and
\* rewrite the whole file with no lock in between, so the last full rewrite
\* wins: after a thread's rewrite the collection is the list that thread
\* loaded with its own change applied, whatever the other thread wrote since
\* that load.  (The state C14_Witness shows the two losses the claim names.)
C14_LastRewriteWins ==
    [][ \A t \in Threads :
           /\ Leaves(t, "save_write") =>
                  /\ history_file' = JsonDump(threads[t].history \o <<threads[t].entry>>)
                  /\ IdsOf(history_file'.data) =
                         IdsOf(threads[t].history) \cup {threads[t].entry.id}
           /\ Leaves(t, "delete_write") =>
                  /\ threads[t].arg.id \notin IdsOf(history_file'.data)
                  /\ IdsOf(history_file'.data) =
                         IdsOf(threads[t].history) \ {threads[t].arg.id}
           /\ Leaves(t, "clear_write") => history_file' = JsonDump(<<>>) ]_vars

\* both losses in one state.  Two saves ran concurrently and both returned,
\* nothing was ever deleted but record 2, and the save of record 1 is lost:
\* its folder is there, its record is not.  The delete of record 2 returned
\* True, and record 2 is in the collection again, put back by the rewrite of
\* a save that had loaded the list before the delete wrote.
C14_Witness ==
    /\ \A t \in Threads : threads[t].pc = "idle"
    /\ completed = [saved |-> {1, 2, 3}, deleted |-> {2}, cleared |-> FALSE]
    /\ IdsOf(Collection) = {2, 3}
    /\ 1 \in DOMAIN history_folder.sub
    /\ 2 \notin DOMAIN history_folder.sub

\* C15: on a readable store a save only appends: the collection after it is
\* the collection before it followed by the one new record, every earlier
\* record unchanged and in its position, and every artifact directory that
\* existed before is left with the same files.
C15_SaveOnlyAppends ==
    [][ (ret'.op = "save" /\ history_file.state = "json") =>
           LET before == history_file.data
               after == LoadHistory(history_file').history
           IN  /\ ret'.raised = ""
               /\ Len(after) = Len(before) + 1
               /\ \A k \in 1..Len(before) : after[k] = before[k]
               /\ after[Len(after)].id = ret'.value.id
               /\ ret'.value.id \notin IdsOf(before)
               /\ \A folder \in DOMAIN history_folder.sub :
                      /\ folder \in DOMAIN history_folder'.sub
                      /\ history_folder'.sub[folder] = history_folder.sub[folder] ]_vars

\* the third save, made after a delete: a record and a non-empty artifact
\* directory were there before it
C15_Witness ==
    /\ ret.op = "save"
    /\ ret.value.id = 3
    /\ IdsOf(Collection) = {2, 3}
    /\ DOMAIN history_folder.sub = {2, 3}
    /\ history_folder.sub[2] # <<>>

\* C16: after a save the entries of saved_artifacts and the files of the
\* record's artifact directory correspond one to one: every entry names a
\* file directly in the directory, two logical names never name the same
\* file, each named file holds the content of its own source, and the
\* directory holds as many files as saved_artifacts has entries.
C16_OneFilePerArtifact ==
    ret.op = "save" =>
        LET result == ret.arg.result
            saved == LastSaved.saved_artifacts
        IN  /\ \A key \in DOMAIN saved :
                   /\ saved[key].folder = LastSaved.artifacts_folder
                   /\ saved[key].name \in DOMAIN LastFiles
                   /\ \E path \in Sources(result, key) :
                          LastFiles[saved[key].name] = Content(path)
            /\ \A key, other \in DOMAIN saved :
                   key # other => saved[key].name # saved[other].name
            /\ Cardinality(DOMAIN LastFiles) = Cardinality(DOMAIN saved)

====
